---------------------------- MODULE Spec2Model ----------------------------
(***************************************************************************)
(* A model of the AuxPoW support of btcd's Dogecoin fork:                  *)
(*   doge/auxpow.go          version flags                                 *)
(*   doge/validation.go      block subsidy schedule                        *)
(*   wire/auxblockheader.go  AuxBlockHeader wire codec                     *)
(*                                                                         *)
(* TLC's integers are 32 bits wide.  int32 values are kept as integers;    *)
(* int64 values are kept as four 16-bit limbs, least significant first,    *)
(* in two's complement; uint32 wire values are kept below 2^31.            *)
(***************************************************************************)
EXTENDS Integers, Sequences, FiniteSets, TLC

VARIABLES
    version,      \* input of the version-flag functions
    isAux,        \* result of IsAuxPoWBlockVersion
    baseVer,      \* result of GetBaseVersion
    vpc,          \* the set of version functions already called
    height,       \* input of CalcBlockSubsidy
    subsidy,      \* its result (int64 limbs), or NoSubsidy
    prevHeight,   \* the height of the previous call, or NoHeight
    prevSubsidy,  \* the result of the previous call, or NoSubsidy
    spc,          \* "call" | "done" | "idle"
    hdr,          \* the AuxBlockHeader being encoded, or the one a stream was built from
    w,            \* the io.Writer handed to the encoder, as it was before the call
    enc,          \* what the encoder left: the writer afterwards, the error returned
    rin,          \* the bytes the io.Reader handed to the decoder will supply
    dec,          \* what the decoder returned, with the receiver it filled
    cpc           \* "start" | "encoded" | "received" | "decoded" | "idle"

versionVars == <<version, isAux, baseVer, vpc>>
subsidyVars == <<height, subsidy, prevHeight, prevSubsidy, spc>>
codecVars == <<hdr, w, enc, rin, dec, cpc>>
vars == <<versionVars, subsidyVars, codecVars>>

---------------------------------------------------------------------------
(* Machine integers *)

MaxInt32 == (2^30 - 1) + 2^30
MinInt32 == -2147483647 - 1

\* Bits 0..30 of the two's complement representation of an int32.
Low31(v) == IF v >= 0 THEN v ELSE (v + 2147483647) + 1

\* Bit i (0..31) of the two's complement representation of an int32.
Bit32(v, i) == IF i = 31 THEN (IF v < 0 THEN 1 ELSE 0) ELSE (Low31(v) \div (2^i)) % 2

RECURSIVE SumBits(_, _, _)
SumBits(a, b, i) ==
    IF i < 0 THEN 0
    ELSE Bit32(a, i) * Bit32(b, i) * (2^i) + SumBits(a, b, i - 1)

\* Go's a & b on int32.
BitAnd32(a, b) ==
    IF Bit32(a, 31) * Bit32(b, 31) = 1
    THEN (SumBits(a, b, 30) - 2147483647) - 1
    ELSE SumBits(a, b, 30)

\* Go's a % b on int32, b > 0: the remainder takes the sign of the dividend.
TruncRem(a, b) ==
    LET m == a % b IN IF a < 0 /\ m # 0 THEN m - b ELSE m

\* Go's a / b on int32, b > 0: the quotient truncates toward zero.
TruncDiv(a, b) ==
    IF a >= 0 \/ a % b = 0 THEN a \div b ELSE (a \div b) + 1

(* 64-bit integers as limbs *)

LimbBase == 2^16
Limbs64 == 64 \div 16

RECURSIVE Propagate(_, _)
\* Carry propagation over a sequence of naturals; the result grows as needed.
Propagate(x, carry) ==
    IF x = <<>>
    THEN IF carry = 0 THEN <<>> ELSE <<carry % LimbBase>> \o Propagate(<<>>, carry \div LimbBase)
    ELSE LET t == Head(x) + carry
         IN  <<t % LimbBase>> \o Propagate(Tail(x), t \div LimbBase)

BigMulSmall(x, k) == Propagate([i \in DOMAIN x |-> x[i] * k], 0)
BigAddSmall(x, a) == Propagate(x, a)

\* x padded with zero limbs, or cut, to n limbs.
Fit(x, n) == [i \in 1..n |-> IF i <= Len(x) THEN x[i] ELSE 0]

RECURSIVE Trim(_)
\* x without its high zero limbs.
Trim(x) == IF x # <<>> /\ x[Len(x)] = 0 THEN Trim(SubSeq(x, 1, Len(x) - 1)) ELSE x

RECURSIVE Dec(_)
\* The number written in decimal groups of three digits, most significant
\* first: Dec(<<50, 0>>) is 50_000.
Dec(groups) ==
    IF groups = <<>> THEN <<>>
    ELSE BigAddSmall(BigMulSmall(Dec(SubSeq(groups, 1, Len(groups) - 1)), 1000),
                     groups[Len(groups)])

\* A non-negative number as a Go int64 (wrapping at 64 bits).
Int64(x) == Fit(x, Limbs64)

\* int64 multiplication by a small constant, wrapping.
Mul64(x, k) == Int64(BigMulSmall(x, k))

RECURSIVE Shl64(_, _)
\* Go's x << s on int64, s >= 0: bits shifted past bit 63 are lost.
Shl64(x, s) ==
    IF s >= 64 THEN Int64(<<>>)
    ELSE IF s = 0 THEN x
    ELSE Shl64(Mul64(x, 2), s - 1)

IsNeg64(x) == x[Limbs64] >= LimbBase \div 2

RECURSIVE LessFrom(_, _, _)
\* Unsigned comparison of limbs i, i-1, ..., 1.
LessFrom(x, y, i) ==
    IF i = 0 THEN FALSE
    ELSE IF x[i] # y[i] THEN x[i] < y[i]
    ELSE LessFrom(x, y, i - 1)

\* Go's x < y and x <= y on int64.
Less64(x, y) ==
    IF IsNeg64(x) # IsNeg64(y) THEN IsNeg64(x) ELSE LessFrom(x, y, Limbs64)
Leq64(x, y) == x = y \/ Less64(x, y)

\* Go's -x on int64.
Neg64(x) == Int64(BigAddSmall([i \in 1..Limbs64 |-> (LimbBase - 1) - x[i]], 1))

---------------------------------------------------------------------------
(* doge/auxpow.go *)

blockMinVersionAuxpow == 6422530     \* 0x00620002
blockVersionFlagAuxpow == 256        \* 0x00000100
versionAuxPow == 2^8                 \* 1 << 8

IsAuxPoWBlockVersion_NoThreshold(v) ==
    BitAnd32(v, blockVersionFlagAuxpow) > 0

IsAuxPoWBlockVersion(v) ==
    v >= blockMinVersionAuxpow /\ BitAnd32(v, blockVersionFlagAuxpow) > 0

GetBaseVersion_KeepFlag(v) ==
    TruncRem(v, 2 * versionAuxPow)

GetBaseVersion(v) ==
    TruncRem(v, versionAuxPow)

---------------------------------------------------------------------------
(* doge/validation.go *)

digishieldBlockHeight == 145000
baseSubsidy == Int64(Dec(<<50, 000, 000, 000, 000>>))
subsidyDecreaseBlockCount == 100000
subsidyFloorHeight == 600000

CalcBlockSubsidy_ForkInclusive(h) ==
    IF h <= digishieldBlockHeight
    THEN Mul64(Shl64(baseSubsidy, TruncDiv(h, subsidyDecreaseBlockCount)), 2)
    ELSE IF h < subsidyFloorHeight
    THEN Shl64(baseSubsidy, TruncDiv(h, subsidyDecreaseBlockCount))
    ELSE baseSubsidy

CalcBlockSubsidy_FloorLate(h) ==
    IF h < digishieldBlockHeight
    THEN Mul64(Shl64(baseSubsidy, TruncDiv(h, subsidyDecreaseBlockCount)), 2)
    ELSE IF h <= subsidyFloorHeight
    THEN Shl64(baseSubsidy, TruncDiv(h, subsidyDecreaseBlockCount))
    ELSE baseSubsidy

\* height is a non-negative int32 here: a negative shift count panics in Go.
CalcBlockSubsidy(h) ==
    IF h < digishieldBlockHeight
    THEN Mul64(Shl64(baseSubsidy, TruncDiv(h, subsidyDecreaseBlockCount)), 2)
    ELSE IF h < subsidyFloorHeight
    THEN Shl64(baseSubsidy, TruncDiv(h, subsidyDecreaseBlockCount))
    ELSE baseSubsidy

---------------------------------------------------------------------------
(* wire: the primitives of the wire package the codec is built on *)

\* F applied to v: a result that is used more than once is named this way.
With(v, F(_)) == F(v)

Nil == "nil"
ErrEOF == "EOF"
ErrUnexpectedEOF == "unexpected EOF"
ErrShortWrite == "short write"
ErrNonCanonicalVarInt == "non-canonical varint"
ErrInvalidType == "invalid type"

HashSize == 32
ZeroHash == [i \in 1..HashSize |-> 0]

\* A uint32 is two 16-bit limbs, least significant first.
Uint32(x) == Fit(x, 2)

Int32Bytes(v) ==
    With(Low31(v), LAMBDA l :
        << l % 256, (l \div 256) % 256, (l \div 65536) % 256,
           (l \div 16777216) + (IF v < 0 THEN 128 ELSE 0) >>)

BytesInt32(b) ==
    With(b[1] + 256 * b[2] + 65536 * b[3] + 16777216 * (b[4] % 128), LAMBDA l :
        IF b[4] >= 128 THEN (l - 2147483647) - 1 ELSE l)

Uint32Bytes(u) == << u[1] % 256, u[1] \div 256, u[2] % 256, u[2] \div 256 >>

\* Little-endian bytes (an even number of them) as limbs.
BytesLimbs(b) == [i \in 1..(Len(b) \div 2) |-> b[2 * i - 1] + 256 * b[2 * i]]

\* io.ReadFull(r, buf) with len(buf) = n; r is the bytes the reader still holds.
ReadFull(r, n) ==
    IF Len(r) >= n
    THEN [r |-> SubSeq(r, n + 1, Len(r)), err |-> Nil, val |-> SubSeq(r, 1, n)]
    ELSE [r |-> <<>>, err |-> IF Len(r) = 0 THEN ErrEOF ELSE ErrUnexpectedEOF, val |-> r]

\* An io.Writer that accepts cap bytes in all (NoLimit: a bytes.Buffer).
NoLimit == 0 - 1
WriterWrite(wr, p) ==
    IF wr.cap = NoLimit \/ Len(wr.buf) + Len(p) <= wr.cap
    THEN [w |-> [wr EXCEPT !.buf = @ \o p], err |-> Nil]
    ELSE [w |-> [wr EXCEPT !.buf = @ \o SubSeq(p, 1, wr.cap - Len(wr.buf))],
          err |-> ErrShortWrite]

\* The arguments of readElement and writeElement, by their Go type.
Int32El(v) == [kind |-> "int32", val |-> v]
Int32Ptr(v) == [kind |-> "*int32", val |-> v]
Uint32El(v) == [kind |-> "uint32", val |-> v]
Uint32Ptr(v) == [kind |-> "*uint32", val |-> v]
Uint32TimePtr(v) == [kind |-> "*uint32Time", val |-> v]
HashPtr(h) == [kind |-> "*chainhash.Hash", val |-> h]
HashPtrPtr(h) == [kind |-> "**chainhash.Hash", val |-> h]

\* writeElement: the type switch, then binary.Write, which rejects a pointer
\* to a pointer and writes nothing.
writeElement(wr, e) ==
    CASE e.kind = "int32" -> WriterWrite(wr, Int32Bytes(e.val))
      [] e.kind = "uint32" -> WriterWrite(wr, Uint32Bytes(e.val))
      [] e.kind = "*chainhash.Hash" -> WriterWrite(wr, e.val)
      [] OTHER -> [w |-> wr, err |-> ErrInvalidType]

RECURSIVE writeElements(_, _)
writeElements(wr, es) ==
    IF es = <<>> THEN [w |-> wr, err |-> Nil]
    ELSE With(writeElement(wr, Head(es)), LAMBDA s :
            IF s.err # Nil THEN s ELSE writeElements(s.w, Tail(es)))

\* readElement: val is the value the pointee holds afterwards.  An int32
\* passed by value reaches binary.Read, which consumes four bytes and then
\* rejects the type; nothing is stored.
readElement(r, e) ==
    IF e.kind = "*chainhash.Hash"
    THEN With(ReadFull(r, HashSize), LAMBDA s :
            [r |-> s.r, err |-> s.err,
             val |-> s.val \o SubSeq(e.val, Len(s.val) + 1, HashSize)])
    ELSE With(ReadFull(r, 4), LAMBDA s :
            [r |-> s.r,
             err |-> IF s.err = Nil /\ e.kind = "int32" THEN ErrInvalidType ELSE s.err,
             val |-> IF s.err # Nil THEN e.val
                     ELSE CASE e.kind = "*int32" -> BytesInt32(s.val)
                            [] e.kind = "*uint32" -> BytesLimbs(s.val)
                            [] e.kind = "*uint32Time" -> Int64(BytesLimbs(s.val))
                            [] OTHER -> e.val])

RECURSIVE readElements(_, _)
\* vals are the values the pointees hold afterwards; elements after the
\* first failure are not touched.
readElements(r, es) ==
    IF es = <<>> THEN [r |-> r, err |-> Nil, vals |-> <<>>]
    ELSE With(readElement(r, Head(es)), LAMBDA s :
            IF s.err # Nil
            THEN [r |-> s.r, err |-> s.err,
                  vals |-> <<s.val>> \o [i \in 1..(Len(es) - 1) |-> es[i + 1].val]]
            ELSE With(readElements(s.r, Tail(es)), LAMBDA t :
                    [r |-> t.r, err |-> t.err, vals |-> <<s.val>> \o t.vals]))

\* The bytes that follow the discriminant d of a variable length integer.
VarIntSize(d) == IF d = 255 THEN 8 ELSE IF d = 254 THEN 4 ELSE IF d = 253 THEN 2 ELSE 0

\* The count v (limbs without high zeros), read from n bytes, is at least
\* the minimum of its encoding.
Canonical(n, v) ==
    CASE n = 8 -> Len(v) > 2
      [] n = 4 -> Len(v) > 1
      [] OTHER -> Len(v) > 1 \/ (Len(v) = 1 /\ v[1] >= 253)

\* ReadVarInt: val is the count as limbs without high zero limbs.
ReadVarInt(r, pver) ==
    With(ReadFull(r, 1), LAMBDA d :
        IF d.err # Nil THEN [r |-> d.r, err |-> d.err, val |-> <<>>]
        ELSE IF VarIntSize(d.val[1]) = 0
        THEN [r |-> d.r, err |-> Nil, val |-> Trim(d.val)]
        ELSE With(ReadFull(d.r, VarIntSize(d.val[1])), LAMBDA b :
                IF b.err # Nil THEN [r |-> b.r, err |-> b.err, val |-> <<>>]
                ELSE With(Trim(BytesLimbs(b.val)), LAMBDA v :
                        IF Canonical(Len(b.val), v)
                        THEN [r |-> b.r, err |-> Nil, val |-> v]
                        ELSE [r |-> b.r, err |-> ErrNonCanonicalVarInt, val |-> <<>>])))

\* The encoding WriteVarInt uses for val (a length, below 2^31).
VarIntBytes(val) ==
    IF val < 253 THEN <<val>>
    ELSE IF val <= 65535 THEN <<253, val % 256, val \div 256>>
    ELSE <<254>> \o Int32Bytes(val)

WriteVarInt(wr, pver, val) == WriterWrite(wr, VarIntBytes(val))

\* A count as a loop bound: every count of 2^16 or more is more than a
\* stream of the model can satisfy.
LoopBound(count) ==
    IF count = <<>> THEN 0 ELSE IF Len(count) = 1 THEN count[1] ELSE LimbBase

\* MsgTx and its codec: a transaction is an opaque payload, written as its
\* length and its bytes.
MsgTxBtcEncode(wr, pver, tx) ==
    With(WriteVarInt(wr, pver, Len(tx.Payload)), LAMBDA s :
        IF s.err # Nil THEN s ELSE WriterWrite(s.w, tx.Payload))

MsgTxBtcDecode(r, pver, tx) ==
    With(ReadVarInt(r, pver), LAMBDA c :
        IF c.err # Nil THEN [r |-> c.r, err |-> c.err, val |-> tx]
        ELSE With(ReadFull(c.r, LoopBound(c.val)), LAMBDA d :
                IF d.err # Nil THEN [r |-> d.r, err |-> d.err, val |-> tx]
                ELSE [r |-> d.r, err |-> Nil, val |-> [Payload |-> d.val]]))

\* time.Time as its Unix seconds (int64); the zero Time is year 1.
ZeroTime == Neg64(Int64(Dec(<<62, 135, 596, 800>>)))

\* writeBlockHeader for a header without auxiliary data: the six fields.
writeBlockHeader(wr, pver, bh, parent) ==
    writeElements(wr, << Int32El(bh.Version), HashPtr(bh.PrevBlock),
                         HashPtr(bh.MerkleRoot), Uint32El(Uint32(bh.Timestamp)),
                         Uint32El(bh.Bits), Uint32El(bh.Nonce) >>)

---------------------------------------------------------------------------
(* wire/auxblockheader.go *)

MaxAuxBlockHeaderPayload == 2048

ZeroMerkleBranch == [LinkHashes |-> <<>>, BranchSidesBitmask |-> 0]

ZeroParentBlock ==
    [Version |-> 0, PrevBlock |-> ZeroHash, MerkleRoot |-> ZeroHash,
     Timestamp |-> ZeroTime, Bits |-> Uint32(<<>>), Nonce |-> Uint32(<<>>)]

ZeroAuxBlockHeader ==
    [ParentCoinbase |-> [Payload |-> <<>>], ParentBlockHash |-> ZeroHash,
     CoinbaseBranch |-> ZeroMerkleBranch, BlockchainBranch |-> ZeroMerkleBranch,
     ParentBlock |-> ZeroParentBlock]

ToBlockHeader(pb) ==
    [Version |-> pb.Version, PrevBlock |-> pb.PrevBlock, MerkleRoot |-> pb.MerkleRoot,
     Timestamp |-> pb.Timestamp, Bits |-> pb.Bits, Nonce |-> pb.Nonce,
     AuxData |-> ZeroAuxBlockHeader]

ParentBlockBtcDecode(r, pb) ==
    With(readElements(r, << Int32Ptr(pb.Version), HashPtr(pb.PrevBlock),
                            HashPtr(pb.MerkleRoot), Uint32TimePtr(pb.Timestamp),
                            Uint32Ptr(pb.Bits), Uint32Ptr(pb.Nonce) >>),
         LAMBDA s :
            [r |-> s.r, err |-> s.err,
             val |-> [Version |-> s.vals[1], PrevBlock |-> s.vals[2],
                      MerkleRoot |-> s.vals[3], Timestamp |-> s.vals[4],
                      Bits |-> s.vals[5], Nonce |-> s.vals[6]]])

\* The errors among steps that are not nil: <<step, error>> pairs.
Failed(steps) == { x \in steps : x[2] # Nil }

(* Decoding.  The decoder's progress is the bytes the reader still holds    *)
(* (r), the receiver (bh), the error returned (err, once returned is TRUE)  *)
(* and the errors of the calls whose result the function drops.             *)

DecState(r, bh) ==
    [r |-> r, bh |-> bh, err |-> Nil, returned |-> FALSE, discarded |-> {}]

\* bh.ParentCoinbase.BtcDecode(r, pver, BaseEncoding)
readParentCoinbase(st, pver) ==
    With(MsgTxBtcDecode(st.r, pver, st.bh.ParentCoinbase), LAMBDA s :
        [st EXCEPT !.r = s.r, !.bh.ParentCoinbase = s.val,
                   !.discarded = @ \cup Failed({<<"ParentCoinbase", s.err>>})])

\* _ = readElements(r, &bh.ParentBlockHash)
readParentBlockHash(st) ==
    With(readElements(st.r, <<HashPtr(st.bh.ParentBlockHash)>>), LAMBDA s :
        [st EXCEPT !.r = s.r, !.bh.ParentBlockHash = s.vals[1],
                   !.discarded = @ \cup Failed({<<"ParentBlockHash", s.err>>})])

RECURSIVE readLinkHashes(_, _, _)
\* The loop that reads count hashes, appending each to LinkHashes, and
\* returns at the first failure.
readLinkHashes(st, branch, count) ==
    IF count = 0 THEN st
    ELSE With(readElement(st.r, HashPtr(ZeroHash)), LAMBDA s :
            IF s.err # Nil
            THEN [st EXCEPT !.r = s.r, !.err = s.err, !.returned = TRUE]
            ELSE readLinkHashes(
                    [st EXCEPT !.r = s.r, !.bh[branch].LinkHashes = Append(@, s.val)],
                    branch, count - 1))

\* _ = readElement(r, bh.<branch>.BranchSidesBitmask): the bitmask goes to
\* readElement by value.
readBranchSidesBitmask(st, branch) ==
    IF st.returned THEN st
    ELSE With(readElement(st.r, Int32El(st.bh[branch].BranchSidesBitmask)), LAMBDA m :
            [st EXCEPT !.r = m.r, !.bh[branch].BranchSidesBitmask = m.val,
                       !.discarded = @ \cup
                           Failed({<<branch \o ".BranchSidesBitmask", m.err>>})])

\* One merkle branch: the count, a fresh LinkHashes, the loop over the
\* hashes, the bitmask.
readBranch(st, pver, branch) ==
    IF st.returned THEN st
    ELSE With(ReadVarInt(st.r, pver), LAMBDA c :
            IF c.err # Nil
            THEN [st EXCEPT !.r = c.r, !.err = c.err, !.returned = TRUE]
            ELSE readBranchSidesBitmask(
                    readLinkHashes([st EXCEPT !.r = c.r, !.bh[branch].LinkHashes = <<>>],
                                   branch, LoopBound(c.val)),
                    branch))

readCoinbaseBranch(st, pver) == readBranch(st, pver, "CoinbaseBranch")

readBlockchainBranch(st, pver) == readBranch(st, pver, "BlockchainBranch")

\* bh.ParentBlock.BtcDecode(r)
readParentBlock(st) ==
    IF st.returned THEN st
    ELSE With(ParentBlockBtcDecode(st.r, st.bh.ParentBlock), LAMBDA s :
            [st EXCEPT !.r = s.r, !.bh.ParentBlock = s.val,
                       !.discarded = @ \cup Failed({<<"ParentBlock", s.err>>})])

\* readAuxBlockHeader: bh is the receiver afterwards, err what is returned.
readAuxBlockHeader(r, pver, bh) ==
    readParentBlock(
        readBlockchainBranch(
            readCoinbaseBranch(
                readParentBlockHash(readParentCoinbase(DecState(r, bh), pver)),
                pver),
            pver))

(* Encoding.  The encoder's progress is the writer (w) and the errors of    *)
(* the calls whose result the function drops; it returns nil.               *)

EncState(wr) == [w |-> wr, err |-> Nil, discarded |-> {}]

\* The call of step returned s and its error was dropped.
Dropped(st, step, s) ==
    [st EXCEPT !.w = s.w, !.discarded = @ \cup Failed({<<step, s.err>>})]

\* bh.ParentCoinbase.BtcEncode(w, pver, BaseEncoding)
writeParentCoinbase(st, pver, bh) ==
    Dropped(st, "ParentCoinbase", MsgTxBtcEncode(st.w, pver, bh.ParentCoinbase))

\* _ = writeElements(w, &bh.ParentBlockHash)
writeParentBlockHash(st, bh) ==
    Dropped(st, "ParentBlockHash", writeElements(st.w, <<HashPtr(bh.ParentBlockHash)>>))

RECURSIVE writeLinkHashes(_, _, _, _)
\* The loop over the link hashes: each turn hands pver and the address of
\* the slice element to writeElements.
writeLinkHashes(st, pver, branch, hashes) ==
    IF hashes = <<>> THEN st
    ELSE writeLinkHashes(
            Dropped(st, branch \o ".LinkHashes",
                    writeElements(st.w, <<Uint32El(pver), HashPtrPtr(Head(hashes))>>)),
            pver, branch, Tail(hashes))

\* _ = WriteVarInt(w, pver, count)
writeBranchCount(st, pver, branch, mb) ==
    Dropped(st, branch \o " count", WriteVarInt(st.w, pver, Len(mb.LinkHashes)))

\* _ = writeElements(w, bh.<branch>.BranchSidesBitmask)
writeBranchSidesBitmask(st, branch, mb) ==
    Dropped(st, branch \o ".BranchSidesBitmask",
            writeElements(st.w, <<Int32El(mb.BranchSidesBitmask)>>))

\* One merkle branch: the count, the loop over the hashes, the bitmask.
writeBranch(st, pver, branch, mb) ==
    writeBranchSidesBitmask(
        writeLinkHashes(writeBranchCount(st, pver, branch, mb), pver, branch, mb.LinkHashes),
        branch, mb)

\* _ = writeBlockHeader(w, pver, bh.ParentBlock.ToBlockHeader(), true)
writeParentBlock(st, pver, bh) ==
    Dropped(st, "ParentBlock",
            writeBlockHeader(st.w, pver, ToBlockHeader(bh.ParentBlock), TRUE))

\* writeAuxBlockHeader: w is the writer afterwards, err what is returned.
writeAuxBlockHeader(wr, pver, bh) ==
    writeParentBlock(
        writeBranch(
            writeBranch(
                writeParentBlockHash(writeParentCoinbase(EncState(wr), pver, bh), bh),
                pver, "CoinbaseBranch", bh.CoinbaseBranch),
            pver, "BlockchainBranch", bh.BlockchainBranch),
        pver, bh)

---------------------------------------------------------------------------
(* Inputs *)

VersionDelta == 3
HeightDelta == 2

VersionAnchors ==
    { 0, 256, 512, 65536, blockMinVersionAuxpow, blockMinVersionAuxpow + 256,
      blockMinVersionAuxpow + 512, 2 * blockMinVersionAuxpow,
      -256, -512, -blockMinVersionAuxpow, -65536,
      MaxInt32 - 8, MaxInt32 - 264, MinInt32 + 8, MinInt32 + 264 }

Versions ==
    { a + d : a \in VersionAnchors, d \in (-VersionDelta)..VersionDelta }
    \cup { MaxInt32, MinInt32 }

HeightAnchors ==
    { k * subsidyDecreaseBlockCount : k \in 1..7 }
    \cup { digishieldBlockHeight, subsidyFloorHeight, 64 * subsidyDecreaseBlockCount,
           MaxInt32 - 8 }

Heights ==
    { a + d : a \in HeightAnchors, d \in (-HeightDelta)..HeightDelta }
    \cup 0..HeightDelta \cup { MaxInt32 }

---------------------------------------------------------------------------
(* Version flags: each function is called once on a chosen version *)

NoHeight == 0 - 1
NoSubsidy == <<>>

CodecIdle ==
    /\ hdr = <<>>
    /\ w = <<>>
    /\ enc = <<>>
    /\ rin = <<>>
    /\ dec = <<>>
    /\ cpc = "idle"
VersionIdle == version = 0 /\ isAux = FALSE /\ baseVer = 0 /\ vpc = {}
SubsidyIdle ==
    /\ height = 0
    /\ subsidy = NoSubsidy
    /\ prevHeight = NoHeight
    /\ prevSubsidy = NoSubsidy
    /\ spc = "idle"

InitVersion ==
    /\ version \in Versions
    /\ isAux = FALSE
    /\ baseVer = 0
    /\ vpc = {}
    /\ SubsidyIdle
    /\ CodecIdle

CallIsAuxPoWBlockVersion ==
    /\ "IsAuxPoWBlockVersion" \notin vpc
    /\ isAux' = IsAuxPoWBlockVersion(version)
    /\ vpc' = vpc \cup {"IsAuxPoWBlockVersion"}
    /\ UNCHANGED <<version, baseVer, subsidyVars, codecVars>>

CallGetBaseVersion ==
    /\ "GetBaseVersion" \notin vpc
    /\ baseVer' = GetBaseVersion(version)
    /\ vpc' = vpc \cup {"GetBaseVersion"}
    /\ UNCHANGED <<version, isAux, subsidyVars, codecVars>>

NextVersion == CallIsAuxPoWBlockVersion \/ CallGetBaseVersion

SpecVersion == InitVersion /\ [][NextVersion]_vars

(* Subsidy: the caller asks for the subsidy at one height, then at another *)

InitSubsidy ==
    /\ height \in Heights
    /\ subsidy = NoSubsidy
    /\ prevHeight = NoHeight
    /\ prevSubsidy = NoSubsidy
    /\ spc = "call"
    /\ VersionIdle
    /\ CodecIdle

CallCalcBlockSubsidy ==
    /\ spc = "call"
    /\ subsidy' = CalcBlockSubsidy(height)
    /\ spc' = "done"
    /\ UNCHANGED <<height, prevHeight, prevSubsidy, versionVars, codecVars>>

\* The caller moves on to another height; the last result is remembered.
NextHeight ==
    /\ spc = "done"
    /\ prevHeight = NoHeight
    /\ \E h \in Heights :
          /\ height' = h
          /\ prevHeight' = height
          /\ prevSubsidy' = subsidy
          /\ subsidy' = NoSubsidy
          /\ spc' = "call"
    /\ UNCHANGED <<versionVars, codecVars>>

NextSubsidy == CallCalcBlockSubsidy \/ NextHeight

SpecSubsidy == InitSubsidy /\ [][NextSubsidy]_vars

---------------------------------------------------------------------------
(* The codec: a header is encoded into a writer and the bytes written are  *)
(* decoded again (SpecCodec); a given stream is decoded (SpecDecode)       *)

MaxBranchLen == 2
MaxTxLen == 1
SmallCap == 40

HashOf(b) == [i \in 1..HashSize |-> b]

Bitmasks == {0, 5, -2}

Branches(fill) ==
    { [LinkHashes |-> [i \in 1..n |-> HashOf(fill + i)], BranchSidesBitmask |-> m] :
        n \in 0..MaxBranchLen, m \in Bitmasks }

Txs == { [Payload |-> [i \in 1..n |-> 7]] : n \in 0..MaxTxLen }

\* Whole-second timestamps in uint32 range: 1_400_000_000 and 4_000_000_000.
ParentBlocks ==
    { [Version |-> 1, PrevBlock |-> HashOf(3), MerkleRoot |-> HashOf(4),
       Timestamp |-> Int64(Dec(<<1, 400, 000, 000>>)),
       Bits |-> <<65535, 7424>>, Nonce |-> <<9, 0>>],
      [Version |-> -6422786, PrevBlock |-> HashOf(200), MerkleRoot |-> ZeroHash,
       Timestamp |-> Int64(Dec(<<4, 000, 000, 000>>)),
       Bits |-> <<0, 0>>, Nonce |-> <<65535, 65535>>] }

Headers ==
    { [ParentCoinbase |-> tx, ParentBlockHash |-> HashOf(1),
       CoinbaseBranch |-> cb, BlockchainBranch |-> bb, ParentBlock |-> pb] :
        tx \in Txs, cb \in Branches(16), bb \in Branches(32), pb \in ParentBlocks }

\* The headers whose streams are cut short: one bitmask and parent each.
DecodeHeaders ==
    { h \in Headers :
        /\ h.CoinbaseBranch.BranchSidesBitmask = 5
        /\ h.BlockchainBranch.BranchSidesBitmask = 0
        /\ h.ParentBlock.Version = 1 }

Writers == { [buf |-> <<>>, cap |-> c] : c \in {NoLimit, 0, SmallCap} }

\* The protocol versions BtcEncode and BtcDecode are called with: 1, 70013.
ProtocolVersions == { <<1, 0>>, <<4477, 1>> }

RECURSIVE Flatten(_)
Flatten(ss) == IF ss = <<>> THEN <<>> ELSE Head(ss) \o Flatten(Tail(ss))

\* The wire layout of a merkle branch: count, hashes in order, bitmask.
BranchLayout(b) ==
    VarIntBytes(Len(b.LinkHashes)) \o Flatten(b.LinkHashes) \o Int32Bytes(b.BranchSidesBitmask)

\* The encoded coinbase transaction.
TxLayout(tx) == VarIntBytes(Len(tx.Payload)) \o tx.Payload

\* The wire layout of a parent header: its six fields.
ParentLayout(pb) ==
    Int32Bytes(pb.Version) \o pb.PrevBlock \o pb.MerkleRoot
    \o Uint32Bytes(Uint32(pb.Timestamp)) \o Uint32Bytes(pb.Bits) \o Uint32Bytes(pb.Nonce)

\* What follows the coinbase transaction on the wire.
LayoutAfterTx(h) ==
    h.ParentBlockHash \o BranchLayout(h.CoinbaseBranch)
    \o BranchLayout(h.BlockchainBranch) \o ParentLayout(h.ParentBlock)

\* The wire layout of an AuxBlockHeader.
WireLayout(h) == TxLayout(h.ParentCoinbase) \o LayoutAfterTx(h)

\* A transaction prefix the transaction codec rejects without reaching the
\* end of the stream: the length 1 in three bytes.
NonCanonicalTx == <<253, 1, 0>>

NoResult == <<>>

InitCodec ==
    /\ hdr \in Headers
    /\ w \in Writers
    /\ enc = NoResult
    /\ rin = <<>>
    /\ dec = NoResult
    /\ cpc = "start"
    /\ VersionIdle
    /\ SubsidyIdle

InitDecode ==
    /\ hdr \in DecodeHeaders
    /\ w = <<>>
    /\ enc = NoResult
    /\ \/ \E n \in 0..Len(WireLayout(hdr)) : rin = SubSeq(WireLayout(hdr), 1, n)
       \/ rin = NonCanonicalTx \o LayoutAfterTx(hdr)
    /\ dec = NoResult
    /\ cpc = "received"
    /\ VersionIdle
    /\ SubsidyIdle

\* What a call of the encoder left: the writer, the error returned, the
\* errors dropped, and the protocol version it was called with.
EncResult(st, pver) ==
    [w |-> st.w, err |-> st.err, discarded |-> st.discarded, pver |-> pver]

\* What a call of the decoder left: the reader, the receiver, the error
\* returned, the errors dropped, and the protocol version.
DecResult(st, pver) ==
    [r |-> st.r, bh |-> st.bh, err |-> st.err, discarded |-> st.discarded, pver |-> pver]

\* The encoder ran on hdr with writer w; the reader will supply what the
\* writer holds afterwards.
Encoded(pver) ==
    /\ enc' = EncResult(writeAuxBlockHeader(w, pver, hdr), pver)
    /\ rin' = enc'.w.buf
    /\ cpc' = "encoded"
    /\ UNCHANGED <<hdr, w, dec, versionVars, subsidyVars>>

\* The decoder ran on rin with a fresh receiver.
Decoded(pver) ==
    /\ dec' = DecResult(readAuxBlockHeader(rin, pver, ZeroAuxBlockHeader), pver)
    /\ cpc' = "decoded"
    /\ UNCHANGED <<hdr, w, enc, rin, versionVars, subsidyVars>>

Serialize == cpc = "start" /\ Encoded(Uint32(<<>>))

BtcEncode == cpc = "start" /\ \E pver \in ProtocolVersions : Encoded(pver)

Deserialize == cpc \in {"encoded", "received"} /\ Decoded(Uint32(<<>>))

BtcDecode == cpc \in {"encoded", "received"} /\ \E pver \in ProtocolVersions : Decoded(pver)

NextCodec == Serialize \/ BtcEncode \/ Deserialize \/ BtcDecode

SpecCodec == InitCodec /\ [][NextCodec]_vars

NextDecode == Deserialize \/ BtcDecode

SpecDecode == InitDecode /\ [][NextDecode]_vars

---------------------------------------------------------------------------
(* Properties of the version flags (SpecVersion) *)

AuxCalled == "IsAuxPoWBlockVersion" \in vpc
BaseCalled == "GetBaseVersion" \in vpc

RECURSIVE LowBits(_, _)
\* The value of bits 0..n-1 of the two's complement representation of v.
LowBits(v, n) == IF n = 0 THEN 0 ELSE Bit32(v, n - 1) * 2^(n - 1) + LowBits(v, n - 1)

\* C7: for every 32-bit signed version v, IsAuxPoWBlockVersion(v) is true
\* exactly when v >= 0x00620002 and bit 8 of v is set; no negative v, no v
\* below the threshold with bit 8 set (0x00000102), and not 0x00620002.
C7_IsAuxPoWIffThresholdAndFlag ==
    AuxCalled =>
        /\ isAux = (version >= 6422530 /\ (version % 512) >= 256)
        /\ (version < 0 => ~isAux)
        /\ (version = 258 => ~isAux)
        /\ (version = 6422530 => ~isAux)

C7_Witness == AuxCalled /\ version = 6422786 /\ isAux

\* C6 as stated: for every 32-bit signed v, negative values included,
\* GetBaseVersion(v) is v mod 256, the low byte of v.
C6_BaseVersionIsLowByte ==
    BaseCalled => baseVer = version % 256 /\ baseVer = LowBits(version, 8)

\* C6 as amended: for every non-negative v, GetBaseVersion(v) is v mod 256,
\* the low byte of v (GetBaseVersion(0x00620102) = 2); for a negative v it is
\* the truncated remainder: 0 when the low byte is 0, else the low byte
\* minus 256.
C6_BaseVersionTruncatedRemainder ==
    BaseCalled =>
        /\ version >= 0 => baseVer = version % 256 /\ baseVer = LowBits(version, 8)
        /\ version < 0 =>
              baseVer = IF LowBits(version, 8) = 0 THEN 0 ELSE LowBits(version, 8) - 256
        /\ version = 6422786 => baseVer = 2

C6_Witness == BaseCalled /\ version = 6422786 /\ baseVer = 2

---------------------------------------------------------------------------
(* Properties of the subsidy schedule (SpecSubsidy) *)

RECURSIVE BigShl(_, _)
\* x * 2^s, exactly.
BigShl(x, s) == IF s = 0 THEN x ELSE BigShl(BigMulSmall(x, 2), s - 1)

\* The piecewise schedule in exact arithmetic.
ExactSchedule(h) ==
    IF h < 145000
    THEN BigMulSmall(BigShl(Dec(<<50, 000, 000, 000, 000>>), h \div 100000), 2)
    ELSE IF h < 600000
    THEN BigShl(Dec(<<50, 000, 000, 000, 000>>), h \div 100000)
    ELSE Dec(<<50, 000, 000, 000, 000>>)

\* x is a value of int64: below 2^63.
FitsInt64(x) == Len(Trim(x)) <= 4 /\ Fit(x, 4)[4] < 32768

SubsidyDone == spc = "done"

\* C8: for every non-negative 32-bit height, CalcBlockSubsidy is the
\* piecewise schedule, computed in int64 without overflow; subsidy(0) is
\* 100_000_000_000_000, subsidy(599999) is 50_000_000_000_000 << 5 and
\* subsidy(600000) is 50_000_000_000_000.
C8_SubsidyIsPiecewiseSchedule ==
    SubsidyDone =>
        /\ FitsInt64(ExactSchedule(height))
        /\ subsidy = Fit(ExactSchedule(height), 4)
        /\ height = 0 => subsidy = Fit(Dec(<<100, 000, 000, 000, 000>>), 4)
        /\ height = 599999 => subsidy = Fit(Dec(<<1, 600, 000, 000, 000, 000>>), 4)
        /\ height = 600000 => subsidy = Fit(Dec(<<50, 000, 000, 000, 000>>), 4)

C8_Witness ==
    SubsidyDone /\ height = 599999 /\ subsidy = Fit(Dec(<<1, 600, 000, 000, 000, 000>>), 4)

\* C5 as stated: CalcBlockSubsidy(144999) is 100_000_000_000_000 and
\* CalcBlockSubsidy(145000) is 50_000_000_000_000.
C5_ForkValuesAsStated ==
    SubsidyDone =>
        /\ height = 144999 => subsidy = Fit(Dec(<<100, 000, 000, 000, 000>>), 4)
        /\ height = 145000 => subsidy = Fit(Dec(<<50, 000, 000, 000, 000>>), 4)

\* C5 as amended: CalcBlockSubsidy(144999) is 200_000_000_000_000 and
\* CalcBlockSubsidy(145000) is 100_000_000_000_000: the value halves
\* exactly at height 145000, to the base subsidy shifted left by one.
C5_ForkValues ==
    /\ SubsidyDone =>
          /\ height = 144999 => subsidy = Fit(Dec(<<200, 000, 000, 000, 000>>), 4)
          /\ height = 145000 => subsidy = Fit(Dec(<<100, 000, 000, 000, 000>>), 4)
    /\ prevHeight = 144999 => prevSubsidy = Fit(Dec(<<200, 000, 000, 000, 000>>), 4)

C5_Witness == SubsidyDone /\ prevHeight = 144999 /\ height = 145000

\* C10: the schedule never grows with height: for non-negative heights
\* h1 <= h2, CalcBlockSubsidy(h2) <= CalcBlockSubsidy(h1); and no height
\* yields less than the floor of 50_000_000_000_000.
C10_SubsidyNeverGrows ==
    SubsidyDone =>
        /\ (prevHeight # NoHeight /\ prevHeight <= height) => Leq64(subsidy, prevSubsidy)
        /\ Leq64(Fit(Dec(<<50, 000, 000, 000, 000>>), 4), subsidy)

---------------------------------------------------------------------------
(* Properties of the codec (SpecCodec, SpecDecode) *)

WasEncoded == cpc \in {"encoded", "decoded"} /\ enc # NoResult
WasDecoded == cpc = "decoded"

\* C1: round trip: writing any header with Serialize/BtcEncode and reading
\* the bytes back with Deserialize/BtcDecode succeeds and yields a header
\* equal to the one written, field for field.
C1_RoundTrip ==
    (WasDecoded /\ WasEncoded /\ w.cap = NoLimit) => dec.err = Nil /\ dec.bh = hdr

\* C9: the bytes written are exactly the coinbase transaction, the parent
\* block hash, then per branch the count, each sibling hash as 32 bytes and
\* the bitmask, then the parent header; nothing else is written.
C9_EncodedLayout ==
    (WasEncoded /\ w.cap = NoLimit) => enc.w.buf = WireLayout(hdr)

\* C4: if any write made while encoding fails, Serialize/BtcEncode returns
\* that failure instead of success.
C4_EncodeFailureSurfaced ==
    (WasEncoded /\ enc.discarded # {}) => enc.err # Nil

IsPrefix(a, b) == Len(a) <= Len(b) /\ a = SubSeq(b, 1, Len(a))

\* The stream holds the whole coinbase transaction of hdr and ends before
\* the end of the header's layout: inside or just before one of the fields
\* that follow.
Truncated ==
    /\ IsPrefix(rin, WireLayout(hdr))
    /\ Len(rin) >= Len(TxLayout(hdr.ParentCoinbase))
    /\ Len(rin) < Len(WireLayout(hdr))

\* C2: decoding a stream that ends before a fixed-size or declared-length
\* field is fully read returns an error, never success.
C2_TruncatedInputFails ==
    (WasDecoded /\ enc = NoResult /\ Truncated) => dec.err # Nil

\* C3: whenever the transaction codec fails on the parent coinbase, the
\* decode of the header returns an error.
C3_TxDecodeFailureAborts ==
    (WasDecoded /\ MsgTxBtcDecode(rin, dec.pver, ZeroAuxBlockHeader.ParentCoinbase).err # Nil)
        => dec.err # Nil

=============================================================================
